---------------------------- MODULE Spec2Model ----------------------------
(***************************************************************************)
(* RunCloud provisioning CLI: configuration resolution and validation      *)
(* (ConfigManager), the HTTP wrapper (RunCloudClient) and the provisioning *)
(* sequence (ProvisioningService.run) driven by the cli entry point.       *)
(*                                                                         *)
(* JavaScript values are modelled as follows.  An optional value is a      *)
(* sequence of length 0 (undefined) or 1 (the value); a JS number is a     *)
(* record [nan, n]; an Error is a record [name, label, status, text,       *)
(* detail, cause] whose message is label/status/text/detail taken apart.   *)
(***************************************************************************)
EXTENDS Integers, Sequences, FiniteSets, TLC

VARIABLES
    cfg,           \* ConfigManager.config (Undefined before construction)
    pc,            \* position of the cli entry / ProvisioningService.run
    webAppId,      \* run(): let webAppId  ([set, id])
    trace,         \* every HTTP request and every sleep issued, in order
    lastTransport, \* what fetch()/response.json() produced for the last request
    lastResult,    \* what RunCloudClient._request did for the last request
    domainObj,     \* _installSsl: const domainObj
    warned,        \* steps whose catch block called Logger.warn
    summaryPrinted,\* _printFinalSummary has run
    exitCode,      \* process exit status (Undefined while running)
    cliArgv,       \* the parsed command line, where a property needs to see it
    procEnv,       \* process.env, where a property needs to see it
    getuid,        \* registrar: process.getuid() (Undefined where it is missing)
    dirExists,     \* registrar: CONFIG_DIR exists
    fs,            \* registrar: the files of CONFIG_DIR, by name
    fsBefore,      \* registrar: fs when the process started
    appPort,       \* registrar: let appPort, once it holds a usable port
    reads,         \* registrar: findNextPort's readFile calls and their state
    usedPorts,     \* registrar: findNextPort's usedPorts array
    fsOps,         \* registrar: the file-system calls issued, in order
    cmds,          \* registrar: the external commands run, with their outcome
    runs,          \* registrar: how many times the program has been started
    retVal,        \* generateDbPass: let retVal (a sequence of characters)
    passLength     \* generateDbPass: the length parameter

\* what only ProvisioningService.run touches
runVars == <<webAppId, trace, lastTransport, lastResult, domainObj, warned,
             summaryPrinted>>

inputVars == <<cliArgv, procEnv>>

regVars == <<getuid, dirExists, fs, fsBefore, appPort, reads, usedPorts, fsOps,
             cmds, runs>>

genVars == <<retVal, passLength>>

vars == <<cfg, pc, exitCode, runVars, inputVars, regVars, genVars>>

-----------------------------------------------------------------------------
(* Bounds *)

MaxDomains == 2

\* the longest length generateDbPass is asked for (its default is 24)
MaxPassLen == 2

-----------------------------------------------------------------------------
(* JavaScript values *)

Undefined == << >>

Some(v) == <<v>>

Num(n) == [nan |-> FALSE, n |-> n]

NaN == [nan |-> TRUE, n |-> 0]

\* truthiness of an optional string
TruthyStr(x) == x # Undefined /\ x[1] # ""

\* truthiness of an optional number
TruthyNum(x) == x # Undefined /\ ~x[1].nan /\ x[1].n # 0

\* parseInt on the strings the model feeds it
parseInt(s) ==
    CASE s = "7"    -> Num(7)
      [] s = "0"    -> Num(0)
      [] s = "12px" -> Num(12)
      [] OTHER      -> NaN

-----------------------------------------------------------------------------
(* config/constants.js *)

APP_TYPES == [WORDPRESS |-> "wordpress", CUSTOM |-> "custom"]

DEFAULTS ==
    [INSTALL_HUB |-> TRUE, HUB_TYPE |-> "native", REDIS_OBJ |-> FALSE,
     INSTALL_SSL |-> FALSE, UNRESTRICTED_PHP |-> FALSE]

SLEEP_MS == 5000

-----------------------------------------------------------------------------
(* Inputs of one process: command line and environment *)

TriBool == {Undefined, Some(TRUE), Some(FALSE)}

EnvFlag == {Undefined, Some("true"), Some("1")}

Secrets == {Undefined, Some(""), Some("key")}

ArgvSet ==
    [type : {APP_TYPES.WORDPRESS, APP_TYPES.CUSTOM},
     domain : {"example.com"},
     owner : {Undefined, Some(Num(0)), Some(Num(1005))},
     hub : TriBool, ssl : TriBool, unrestricted : TriBool,
     hubType : {Undefined, Some("redis")},
     redisObj : {Undefined, Some(TRUE)}]

EnvSet ==
    [RC_API_KEY : Secrets,
     RC_SERVER_ID : {Undefined, Some(""), Some("srv")},
     RC_DEFAULT_USER : {Undefined, Some("7"), Some("abc")},
     RC_INSTALL_HUB : EnvFlag, RC_INSTALL_SSL : EnvFlag,
     RC_UNRESTRICTED_PHP : EnvFlag,
     RC_HUB_TYPE : {Undefined},
     RC_HUB_REDIS_OBJ : {Undefined}]

-----------------------------------------------------------------------------
(* ConfigManager *)

\* a toggle that keeps its default unless the environment says "true"
ResolveToggle_defaultUnlessTrue(cli, envv, dflt) ==
    IF cli # Undefined THEN cli[1]
    ELSE IF envv = Some("true") THEN TRUE
    ELSE dflt

\* the tri-state resolution of one boolean toggle
ResolveToggle(cli, envv, dflt) ==
    IF cli # Undefined THEN cli[1]
    ELSE IF envv # Undefined THEN envv[1] = "true"
    ELSE dflt

\* an object-cache flag that is kept whatever the cache type
HubRedisObject_anyType(hubType, redisObj) == redisObj

\* hub.redisObject: hubType === 'redis' ? redisObj : false
HubRedisObject(hubType, redisObj) ==
    IF hubType = "redis" THEN redisObj ELSE FALSE

_resolveConfig(argv, env) ==
    LET hubType == IF TruthyStr(argv.hubType) THEN argv.hubType[1]
                   ELSE IF TruthyStr(env.RC_HUB_TYPE) THEN env.RC_HUB_TYPE[1]
                   ELSE DEFAULTS.HUB_TYPE
        redisObj == IF argv.redisObj # Undefined THEN argv.redisObj[1]
                    ELSE IF TruthyStr(env.RC_HUB_REDIS_OBJ)
                         THEN env.RC_HUB_REDIS_OBJ[1] = "true"
                    ELSE FALSE
    IN  [serverId |-> env.RC_SERVER_ID,
         apiKey |-> env.RC_API_KEY,
         appType |-> argv.type,
         domainName |-> argv.domain,
         ownerId |-> IF TruthyNum(argv.owner) THEN argv.owner
                     ELSE IF TruthyStr(env.RC_DEFAULT_USER)
                          THEN Some(parseInt(env.RC_DEFAULT_USER[1]))
                     ELSE Undefined,
         installHub |-> ResolveToggle(argv.hub, env.RC_INSTALL_HUB,
                                      DEFAULTS.INSTALL_HUB),
         installSsl |-> ResolveToggle(argv.ssl, env.RC_INSTALL_SSL,
                                      DEFAULTS.INSTALL_SSL),
         unrestrictedPhp |-> ResolveToggle(argv.unrestricted,
                                           env.RC_UNRESTRICTED_PHP,
                                           DEFAULTS.UNRESTRICTED_PHP),
         hub |-> [type |-> hubType,
                  redisObject |-> HubRedisObject(hubType, redisObj)]]

\* the validation of the first ConfigManager, without the custom-app check
_validate_noOwnerCheck(c) ==
    TruthyStr(c.serverId) /\ TruthyStr(c.apiKey)

\* TRUE when _validate returns, FALSE when it calls process.exit(1)
_validate(c) ==
    /\ TruthyStr(c.serverId)
    /\ TruthyStr(c.apiKey)
    /\ ~(c.appType = APP_TYPES.CUSTOM /\ ~TruthyNum(c.ownerId))

-----------------------------------------------------------------------------
(* What the network can answer *)

Statuses == {200, 201, 401, 403, 422, 500}

\* Response.ok of the Fetch API
ResponseOk(status) == status >= 200 /\ status <= 299

FieldErrors == <<[k |-> "dbPassword", v |-> <<"format is invalid">>]>>

Body(json, message, errors, id, data) ==
    [json |-> json, message |-> message, errors |-> errors, id |-> id,
     data |-> data]

\* a body that is not JSON (empty, HTML, truncated)
InvalidJson == Body("invalid", Undefined, Undefined, Undefined, Undefined)

\* the JSON text null
JsonNull == Body("null", Undefined, Undefined, Undefined, Undefined)

ErrorShapes ==
    {Body("object", m, e, Undefined, Undefined) :
        m \in {Undefined, Some("Denied")}, e \in {Undefined, Some(FieldErrors)}}

DomainNames == {"example.com", "Example.com", "other.org"}

\* the identifier the platform gave the i-th domain record
DomainIdAt(i) == 100 + i

DomainLists ==
    UNION {{[i \in 1..n |-> [name |-> names[i], id |-> DomainIdAt(i)]] :
                names \in [1..n -> DomainNames]} : n \in 0..MaxDomains}

Bodies(op) ==
    {InvalidJson, JsonNull} \cup ErrorShapes \cup
    (IF op \in {"createWordPress", "createCustomWebApp"}
     THEN {Body("object", Undefined, Undefined, Some(555), Undefined)}
     ELSE IF op = "getDomains"
     THEN {Body("object", Undefined, Undefined, Undefined, Some(l)) :
              l \in DomainLists}
     ELSE {})

RejectCodes == {Undefined, Some("ENOTFOUND"), Some("ECONNREFUSED")}

Response(status, body) ==
    [kind |-> "response", status |-> status, body |-> body, code |-> Undefined]

\* fetch() rejected: no response at all
Rejected(code) ==
    [kind |-> "reject", status |-> 0, body |-> InvalidJson, code |-> code]

Transports(op) ==
    {Response(s, b) : s \in Statuses, b \in Bodies(op)} \cup
    {Rejected(c) : c \in RejectCodes}

NoTransport == Rejected(Undefined)

-----------------------------------------------------------------------------
(* RunCloudClient *)

Err(name, label, status, text, detail, cause) ==
    [name |-> name, label |-> label, status |-> status, text |-> text,
     detail |-> detail, cause |-> cause]

NoError == Err("", "", 0, "", << >>, Undefined)

Return(value) == [threw |-> FALSE, value |-> value, error |-> NoError]

Throw(error) == [threw |-> TRUE, value |-> InvalidJson, error |-> error]

NoResult == Return(InvalidJson)

\* the rejection of fetch(): TypeError('fetch failed', { cause })
FetchError(code) == Err("TypeError", "fetch failed", 0, "", << >>, code)

\* the rejection of response.json() on a body that is not JSON
JsonSyntaxError ==
    Err("SyntaxError", "Unexpected token in JSON", 0, "", << >>, Undefined)

\* reading a property of null
NullTypeError ==
    Err("TypeError", "Cannot read properties of null", 0, "", << >>, Undefined)

NetworkError ==
    Err("Error", "Network Error: Could not connect to RunCloud API", 0,
        "Check internet connection.", << >>, Undefined)

\* JSON.stringify of an object body
JSONStringify(data) ==
    "{" \o (IF data.message # Undefined THEN "message" ELSE "")
        \o (IF data.errors # Undefined THEN "errors" ELSE "")
        \o (IF data.id # Undefined THEN "id" ELSE "")
        \o (IF data.data # Undefined THEN "data" ELSE "") \o "}"

\* the error _handleError throws
_handleError(status, data) ==
    IF data.json = "null" THEN NullTypeError
    ELSE
    LET msg == IF TruthyStr(data.message) THEN data.message[1]
               ELSE JSONStringify(data)
    IN  CASE status = 401 ->
                Err("Error", "Authentication Failed", 401,
                    "Invalid Bearer Token.", << >>, Undefined)
          [] status = 403 ->
                Err("Error", "Permission Denied", 403,
                    "Credentials valid but access denied. Check RC_SERVER_ID.",
                    << >>, Undefined)
          [] status = 422 ->
                Err("Error", "Validation Error", 422, msg,
                    IF data.errors # Undefined THEN data.errors[1] ELSE << >>,
                    Undefined)
          [] OTHER ->
                Err("Error", "API Error", status, msg, << >>, Undefined)

\* the try block of _request: fetch, response.json(), the status check
TryBlock(t) ==
    IF t.kind = "reject" THEN Throw(FetchError(t.code))
    ELSE IF t.body.json = "invalid" THEN Throw(JsonSyntaxError)
    ELSE IF ~ResponseOk(t.status) THEN Throw(_handleError(t.status, t.body))
    ELSE Return(t.body)

\* a catch block that reports every failure as a network error
CatchBlock_wrapAll(error) == NetworkError

\* the catch block of _request: the error it throws
CatchBlock(error) ==
    IF error.cause = Some("ENOTFOUND") THEN NetworkError ELSE error

\* the outcome of _request when the network answers t
_request(t) ==
    LET r == TryBlock(t)
    IN  IF r.threw THEN Throw(CatchBlock(r.error)) ELSE r

\* /servers/{server}/webapps[/{app}[/domains/{domain}]]/{leaf}; app is the
\* interpolated webAppId, itself possibly undefined
Endpoint(server, app, domain, leaf) ==
    [server |-> server, app |-> app, domain |-> domain, leaf |-> leaf]

\* options of fetch: the body goes out only when present and not on a GET
Wire(op, method, endpoint, body) ==
    [op |-> op, method |-> method, endpoint |-> endpoint,
     body |-> IF body # Undefined /\ method # "GET" THEN body ELSE Undefined]

createWordPress(c, payload) ==
    Wire("createWordPress", "POST",
         Endpoint(c.serverId, Undefined, Undefined, "webapps/wordpress"), Some(payload))

createCustomWebApp(c, payload) ==
    Wire("createCustomWebApp", "POST",
         Endpoint(c.serverId, Undefined, Undefined, "webapps"), Some(payload))

installHub(c, appId, hubConfig) ==
    Wire("installHub", "POST",
         Endpoint(c.serverId, Some(appId), Undefined, "runcloudhub"),
         Some([cacheType |-> hubConfig.type,
               redisObjectCache |-> hubConfig.redisObject,
               cacheFolderSize |-> 50, cacheValidMinute |-> 480]))

getDomains(c, appId) ==
    Wire("getDomains", "GET",
         Endpoint(c.serverId, Some(appId), Undefined, "domains"), Undefined)

installSsl(c, appId, domainId) ==
    Wire("installSsl", "POST",
         Endpoint(c.serverId, Some(appId), Some(domainId), "ssl"),
         Some([advancedSSL |-> TRUE, autoSSL |-> FALSE,
               provider |-> "letsencrypt", enableHttp |-> FALSE,
               enableHsts |-> FALSE, authorizationMethod |-> "http-01",
               environment |-> "live"]))

updateFpmSettings(c, appId, payload) ==
    Wire("updateFpmSettings", "PATCH",
         Endpoint(c.serverId, Some(appId), Undefined, "settings/fpmnginx"),
         Some(payload))

\* the propagation delay, recorded in the same history as the requests
Slept(ms) == Wire("sleep", "", Endpoint(Undefined, Undefined, Undefined, ""),
         Some([ms |-> ms]))

-----------------------------------------------------------------------------
(* ProvisioningService *)

Cfg == cfg[1]

isWp_always(c) == TRUE

isWp(c) == c.appType = APP_TYPES.WORDPRESS

\* the wait condition of the single-type service, which ignores the type
needsWait_anyType(c) == c.installHub \/ c.installSsl \/ c.unrestrictedPhp

needsWait(c) ==
    c.installSsl \/ (isWp(c) /\ (c.installHub \/ c.unrestrictedPhp))

\* a custom payload that takes the default stack of the WordPress path
customPayload_nativeStack(c) ==
    [domainName |-> c.domainName, user |-> c.ownerId, stack |-> "nativenginx",
     disableFunctions |-> "", allowUrlFopen |-> TRUE,
     stackMode |-> "production"]

customPayload(c) ==
    [domainName |-> c.domainName, user |-> c.ownerId, stack |-> "customnginx",
     disableFunctions |-> "", allowUrlFopen |-> TRUE,
     stackMode |-> "production"]

\* _prepareWpData: the owner is assigned only when one is configured
wpPayload(c) ==
    [domainName |-> c.domainName, dbPrefix |-> "wp_",
     stackMode |-> "production",
     user |-> IF TruthyNum(c.ownerId) THEN c.ownerId ELSE Undefined]

\* a failed creation that run() carries on from
AfterCreate_swallow(threw) == "delay"

\* run(): a throw of the creation step leaves run() through its catch
AfterCreate(threw) == IF threw THEN "trap" ELSE "delay"

\* a step without its try/catch
CatchAndContinue_rethrow(threw, here, next) == IF threw THEN "trap" ELSE next

\* a step that is tried again after a failure
CatchAndContinue_retry(threw, here, next) == IF threw THEN here ELSE next

\* the try/catch of _unlockPhpFunctions, _installHub and _installSsl
CatchAndContinue(threw, here, next) == next

\* a comparison that ignores letter case
Lower(s) == IF s = "Example.com" THEN "example.com" ELSE s

NameMatches_ignoreCase(recordName, configured) ==
    Lower(recordName) = Lower(configured)

\* d.name === this.cfg.domainName
NameMatches(recordName, configured) == recordName = configured

\* a lookup that takes the first record whatever its name
FindDomain_first(list, configured) ==
    IF list = << >> THEN Undefined ELSE Some(list[1])

\* domainList.data.find(...): the first matching record, or undefined
FindDomain(list, configured) ==
    LET hits == {i \in DOMAIN list : NameMatches(list[i].name, configured)}
    IN  IF hits = {} THEN Undefined
        ELSE Some(list[CHOOSE i \in hits : \A j \in hits : i <= j])

\* await this.client.<op>(...): the request goes out, the network answers t
Call(req, t) ==
    /\ trace' = Append(trace, req)
    /\ lastTransport' = t
    /\ lastResult' = _request(t)

\* no file in the directory
NoFiles == [f \in {} |-> 0]

\* the variables of run() before run() has started
RunIdle ==
    /\ webAppId = [set |-> FALSE, id |-> Undefined]
    /\ trace = << >>
    /\ lastTransport = NoTransport
    /\ lastResult = NoResult
    /\ domainObj = Undefined
    /\ warned = {}
    /\ summaryPrinted = FALSE

\* the command line and the environment are not looked at
InputsIdle == cliArgv = Undefined /\ procEnv = Undefined

\* the registrar is not running
RegistrarIdle ==
    /\ getuid = Undefined
    /\ dirExists = FALSE
    /\ fs = NoFiles
    /\ fsBefore = NoFiles
    /\ appPort = Undefined
    /\ reads = NoFiles
    /\ usedPorts = << >>
    /\ fsOps = << >>
    /\ cmds = << >>
    /\ runs = 0

\* generateDbPass is not running
GeneratorIdle == retVal = << >> /\ passLength = 0

Init ==
    /\ cfg = Undefined
    /\ pc = "cli"
    /\ exitCode = Undefined
    /\ RunIdle
    /\ InputsIdle
    /\ RegistrarIdle
    /\ GeneratorIdle

\* new ConfigManager(): resolve, then validate (process.exit(1) on failure)
ConfigManager ==
    /\ pc = "cli"
    /\ \E argv \in ArgvSet, env \in EnvSet :
          LET c == _resolveConfig(argv, env)
          IN  /\ cfg' = Some(c)
              /\ IF _validate(c)
                 THEN pc' = "create" /\ exitCode' = exitCode
                 ELSE pc' = "exited" /\ exitCode' = Some(1)
    /\ UNCHANGED <<webAppId, trace, lastTransport, lastResult, domainObj,
                   warned, summaryPrinted>>
    /\ UNCHANGED <<inputVars, regVars, genVars>>

\* the creation step; result.id on a null result is a TypeError
Create(req) ==
    \E t \in Transports(req.op) :
       LET res == _request(t)
           threw == res.threw \/ res.value.json = "null"
       IN  /\ Call(req, t)
           /\ webAppId' = IF threw THEN webAppId
                          ELSE [set |-> TRUE, id |-> res.value.id]
           /\ pc' = AfterCreate(threw)
           /\ UNCHANGED <<cfg, domainObj, warned, summaryPrinted, exitCode>>

_provisionCustomApp ==
    /\ pc = "create"
    /\ Cfg.appType = APP_TYPES.CUSTOM
    /\ Create(createCustomWebApp(Cfg, customPayload(Cfg)))
    /\ UNCHANGED <<inputVars, regVars, genVars>>

_provisionWordPress ==
    /\ pc = "create"
    /\ Cfg.appType # APP_TYPES.CUSTOM
    /\ Create(createWordPress(Cfg, wpPayload(Cfg)))
    /\ UNCHANGED <<inputVars, regVars, genVars>>

\* if (needsWait) await sleep(5000)
Delay ==
    /\ pc = "delay"
    /\ trace' = IF needsWait(Cfg) THEN Append(trace, Slept(SLEEP_MS)) ELSE trace
    /\ pc' = "fpm"
    /\ UNCHANGED <<cfg, webAppId, lastTransport, lastResult, domainObj, warned,
                   summaryPrinted, exitCode>>
    /\ UNCHANGED <<inputVars, regVars, genVars>>

\* if (isWp && unrestrictedPhp) await this._unlockPhpFunctions(webAppId)
_unlockPhpFunctions ==
    /\ pc = "fpm"
    /\ IF isWp(Cfg) /\ Cfg.unrestrictedPhp
       THEN \E t \in Transports("updateFpmSettings") :
               /\ Call(updateFpmSettings(Cfg, webAppId.id,
                                         [disableFunctions |-> ""]), t)
               /\ warned' = IF _request(t).threw THEN warned \cup {"fpm"}
                            ELSE warned
               /\ pc' = CatchAndContinue(_request(t).threw, "fpm", "hub")
       ELSE /\ pc' = "hub"
            /\ UNCHANGED <<trace, lastTransport, lastResult, warned>>
    /\ UNCHANGED <<cfg, webAppId, domainObj, summaryPrinted, exitCode>>
    /\ UNCHANGED <<inputVars, regVars, genVars>>

\* if (isWp && installHub) await this._installHub(webAppId)
_installHub ==
    /\ pc = "hub"
    /\ IF isWp(Cfg) /\ Cfg.installHub
       THEN \E t \in Transports("installHub") :
               /\ Call(installHub(Cfg, webAppId.id, Cfg.hub), t)
               /\ warned' = IF _request(t).threw THEN warned \cup {"hub"}
                            ELSE warned
               /\ pc' = CatchAndContinue(_request(t).threw, "hub", "ssl")
       ELSE /\ pc' = "ssl"
            /\ UNCHANGED <<trace, lastTransport, lastResult, warned>>
    /\ UNCHANGED <<cfg, webAppId, domainObj, summaryPrinted, exitCode>>
    /\ UNCHANGED <<inputVars, regVars, genVars>>

\* _installSsl up to the lookup: getDomains, then find; reading .data of a
\* null result or calling .find on a missing data is a TypeError, and a
\* missing record throws 'Domain ID lookup failed.'
_installSsl_getDomains ==
    /\ pc = "ssl"
    /\ IF Cfg.installSsl
       THEN \E t \in Transports("getDomains") :
               LET res == _request(t)
                   noList == res.threw \/ res.value.json = "null"
                                       \/ res.value.data = Undefined
                   found == IF noList THEN Undefined
                            ELSE FindDomain(res.value.data[1], Cfg.domainName)
                   threw == found = Undefined
               IN  /\ Call(getDomains(Cfg, webAppId.id), t)
                   /\ domainObj' = found
                   /\ warned' = IF threw THEN warned \cup {"ssl"} ELSE warned
                   /\ pc' = IF threw THEN CatchAndContinue(TRUE, "ssl", "summary")
                            ELSE "sslRequest"
       ELSE /\ pc' = "summary"
            /\ UNCHANGED <<trace, lastTransport, lastResult, domainObj, warned>>
    /\ UNCHANGED <<cfg, webAppId, summaryPrinted, exitCode>>
    /\ UNCHANGED <<inputVars, regVars, genVars>>

\* _installSsl after the lookup: the certificate request
_installSsl_request ==
    /\ pc = "sslRequest"
    /\ \E t \in Transports("installSsl") :
          /\ Call(installSsl(Cfg, webAppId.id, domainObj[1].id), t)
          /\ warned' = IF _request(t).threw THEN warned \cup {"ssl"} ELSE warned
          /\ pc' = CatchAndContinue(_request(t).threw, "sslRequest", "summary")
    /\ UNCHANGED <<cfg, webAppId, domainObj, summaryPrinted, exitCode>>
    /\ UNCHANGED <<inputVars, regVars, genVars>>

_printFinalSummary ==
    /\ pc = "summary"
    /\ summaryPrinted' = TRUE
    /\ pc' = "end"
    /\ UNCHANGED <<cfg, webAppId, trace, lastTransport, lastResult, domainObj,
                   warned, exitCode>>
    /\ UNCHANGED <<inputVars, regVars, genVars>>

\* cli entry: run() resolved, nothing is pending, the process ends
CliEnd ==
    /\ pc = "end"
    /\ exitCode' = Some(0)
    /\ pc' = "exited"
    /\ UNCHANGED <<cfg, webAppId, trace, lastTransport, lastResult, domainObj,
                   warned, summaryPrinted>>
    /\ UNCHANGED <<inputVars, regVars, genVars>>

\* cli entry: catch (error) { Logger.error(...); process.exit(1) }
GlobalErrorTrap ==
    /\ pc = "trap"
    /\ exitCode' = Some(1)
    /\ pc' = "exited"
    /\ UNCHANGED <<cfg, webAppId, trace, lastTransport, lastResult, domainObj,
                   warned, summaryPrinted>>
    /\ UNCHANGED <<inputVars, regVars, genVars>>

Next ==
    \/ ConfigManager
    \/ _provisionCustomApp
    \/ _provisionWordPress
    \/ Delay
    \/ _unlockPhpFunctions
    \/ _installHub
    \/ _installSsl_getDomains
    \/ _installSsl_request
    \/ _printFinalSummary
    \/ CliEnd
    \/ GlobalErrorTrap

Spec == Init /\ [][Next]_vars

-----------------------------------------------------------------------------
(* Vocabulary of the properties *)

CreateOps == {"createWordPress", "createCustomWebApp"}

PostCreateOps == {"updateFpmSettings", "installHub", "getDomains", "installSsl"}

TraceOps == [i \in DOMAIN trace |-> trace[i].op]

Count(ops) == Cardinality({i \in DOMAIN trace : trace[i].op \in ops})

IsPrefix(s, t) == Len(s) <= Len(t) /\ \A i \in DOMAIN s : s[i] = t[i]

\* a creation request went out and the creation step threw
CreationFailed == trace # << >> /\ ~webAppId.set

\* run() has gone through all its steps
PastSteps == pc \in {"summary", "end", "exited"}

\* some record of the list carries exactly the configured name
HasExactMatch(list) == \E i \in DOMAIN list : list[i].name = Cfg.domainName

\* the parsed domain list of the last answer, << >> when there is none
LastList ==
    IF lastTransport.kind = "response" /\ lastTransport.body.data # Undefined
    THEN lastTransport.body.data[1] ELSE << >>

-----------------------------------------------------------------------------
(* C1: when the creation step fails, the creation request is the only thing *)
(* the run ever did: no delay and no later request follows, the final       *)
(* summary is not printed, control is in the global error trap or past it,  *)
(* and the process exit status is 1.                                        *)
C1_CreationFailureAborts ==
    CreationFailed =>
        /\ Len(trace) = 1
        /\ trace[1].op \in CreateOps
        /\ ~summaryPrinted
        /\ pc \in {"trap", "exited"}
        /\ pc = "exited" => exitCode = Some(1)

C1_Witness ==
    /\ pc = "exited" /\ CreationFailed /\ lastResult.threw
    /\ exitCode = Some(1)
    /\ Cfg.installSsl /\ Cfg.installHub /\ Cfg.unrestrictedPhp

(* C2: once the creation step has succeeded, no failure of a later request  *)
(* reaches the global error trap: every enabled later step has issued its   *)
(* request by the time the steps are over, the summary is printed before    *)
(* the process ends, and the exit status is 0.                              *)
C2_LaterFailuresSwallowed ==
    webAppId.set =>
        /\ pc # "trap"
        /\ exitCode # Some(1)
        /\ PastSteps =>
              /\ (isWp(Cfg) /\ Cfg.unrestrictedPhp)
                    => Count({"updateFpmSettings"}) = 1
              /\ (isWp(Cfg) /\ Cfg.installHub) => Count({"installHub"}) = 1
              /\ Cfg.installSsl => Count({"getDomains"}) = 1
        /\ pc \in {"end", "exited"} => summaryPrinted
        /\ pc = "exited" => exitCode = Some(0)

C2_Witness ==
    /\ pc = "exited" /\ exitCode = Some(0) /\ summaryPrinted
    /\ warned = {"fpm", "hub", "ssl"}
    /\ Count({"getDomains"}) = 1

(* C3: a WordPress run with cache plugin and certificate enabled in which   *)
(* no step failed has issued exactly: creation, one delay, the settings     *)
(* patch if PHP-unrestriction is enabled, the cache-plugin install, the     *)
(* domain list, and the certificate request, in that order; the record      *)
(* looked up carries the configured name and the certificate request        *)
(* carries that record's identifier.                                        *)
C3_CallOrder ==
    (/\ cfg # Undefined /\ PastSteps /\ webAppId.set
     /\ isWp(Cfg) /\ Cfg.installHub /\ Cfg.installSsl
     /\ warned = {})
    => /\ TraceOps = <<"createWordPress", "sleep">>
                     \o (IF Cfg.unrestrictedPhp THEN <<"updateFpmSettings">>
                         ELSE << >>)
                     \o <<"installHub", "getDomains", "installSsl">>
       /\ domainObj # Undefined
       /\ domainObj[1].name = Cfg.domainName
       /\ trace[Len(trace)].endpoint.domain = Some(domainObj[1].id)

C3_Witness ==
    /\ pc = "exited" /\ webAppId.set /\ warned = {}
    /\ isWp(Cfg) /\ Cfg.installHub /\ Cfg.installSsl /\ Cfg.unrestrictedPhp
    /\ Len(trace) = 6
    /\ trace[6].endpoint.domain = Some(DomainIdAt(2))

(* C4: a custom-type run never issues the settings patch nor the            *)
(* cache-plugin install, whatever the toggles; what it issues is a prefix   *)
(* of creation, delay, domain list, certificate request when the            *)
(* certificate toggle is on, and the creation alone when it is off.         *)
C4_CustomOnlyCertificatePath ==
    (cfg # Undefined /\ Cfg.appType = APP_TYPES.CUSTOM)
    => /\ Count({"updateFpmSettings", "installHub", "createWordPress"}) = 0
       /\ IsPrefix(TraceOps,
                   IF Cfg.installSsl
                   THEN <<"createCustomWebApp", "sleep", "getDomains",
                          "installSsl">>
                   ELSE <<"createCustomWebApp">>)

C4_Witness ==
    /\ pc = "exited" /\ Cfg.appType = APP_TYPES.CUSTOM
    /\ Cfg.installHub /\ Cfg.unrestrictedPhp /\ Cfg.installSsl
    /\ Count({"installSsl"}) = 1

(* C5: no delay precedes a successful creation; once the delay decision is  *)
(* taken, the history holds exactly one delay, right after the creation,    *)
(* when the certificate toggle is on or the type is WordPress with the      *)
(* cache-plugin or PHP-unrestriction toggle on, and otherwise holds the     *)
(* creation request and nothing else, for the rest of the run.              *)
C5_DelayExactlyWhenNeeded ==
    /\ ~webAppId.set => Count({"sleep"}) = 0
    /\ (webAppId.set /\ pc # "delay") =>
          IF Cfg.installSsl \/ (Cfg.appType = "wordpress"
                                /\ (Cfg.installHub \/ Cfg.unrestrictedPhp))
          THEN /\ Count({"sleep"}) = 1
               /\ trace[2] = Slept(5000)
          ELSE Len(trace) = 1

C5_Witness ==
    /\ pc = "exited" /\ webAppId.set
    /\ Cfg.appType = "wordpress" /\ ~Cfg.installSsl /\ ~Cfg.installHub
    /\ Cfg.unrestrictedPhp
    /\ TraceOps = <<"createWordPress", "sleep", "updateFpmSettings">>

(* C6: the certificate request is issued only for a record whose name       *)
(* equals the configured domain exactly, the first such record of the       *)
(* fetched list, and carries its identifier; when the domain-list call      *)
(* fails or the list holds no exactly equal name, the step logs its         *)
(* warning, no certificate request follows, and the run goes on to the      *)
(* summary.                                                                 *)
C6_ExactDomainMatch ==
    /\ pc = "sslRequest" =>
          /\ ~lastResult.threw
          /\ \E i \in DOMAIN LastList :
                /\ LastList[i].name = Cfg.domainName
                /\ \A j \in 1..(i - 1) : LastList[j].name # Cfg.domainName
                /\ domainObj = Some(LastList[i])
    /\ Count({"installSsl"}) >= 1 =>
          /\ domainObj # Undefined
          /\ domainObj[1].name = Cfg.domainName
          /\ trace[Len(trace)].op = "installSsl"
          /\ trace[Len(trace)].endpoint.domain = Some(domainObj[1].id)
    /\ (/\ trace # << >>
        /\ trace[Len(trace)].op = "getDomains"
        /\ lastResult.threw \/ ~HasExactMatch(LastList))
       => /\ "ssl" \in warned
          /\ PastSteps
          /\ pc = "exited" => exitCode = Some(0)

C6_Witness ==
    /\ pc = "exited" /\ exitCode = Some(0) /\ summaryPrinted
    /\ trace[Len(trace)].op = "getDomains"
    /\ ~lastResult.threw
    /\ \E i \in DOMAIN LastList : LastList[i].name = "Example.com"
    /\ "ssl" \in warned

(* C7: a configuration without a non-empty API key, without a non-empty     *)
(* server identifier, or of custom type without an owner identifier, ends   *)
(* the process with status 1 before any request; so whenever a request has  *)
(* been issued the configuration carries all of them.                       *)
C7_ValidationBeforeNetwork ==
    cfg # Undefined =>
        LET invalid ==
                \/ Cfg.apiKey \in {Undefined, Some("")}
                \/ Cfg.serverId \in {Undefined, Some("")}
                \/ (Cfg.appType = "custom" /\ ~TruthyNum(Cfg.ownerId))
        IN  /\ invalid => (trace = << >> /\ pc = "exited"
                           /\ exitCode = Some(1))
            /\ trace # << >> => ~invalid

C7_Witness ==
    /\ pc = "exited" /\ exitCode = Some(1) /\ trace = << >>
    /\ Cfg.appType = "custom" /\ Cfg.ownerId = Undefined
    /\ Cfg.apiKey = Some("key") /\ Cfg.serverId = Some("srv")

(* C8: in one run each remote operation is requested at most once (one      *)
(* creation request in all), also after a failure, and every request is a   *)
(* POST, GET or PATCH of one of the five operations: none deletes.          *)
C8_AtMostOnceNoRollback ==
    /\ Count(CreateOps) <= 1
    /\ \A o \in PostCreateOps \cup {"sleep"} : Count({o}) <= 1
    /\ \A i \in DOMAIN trace :
          /\ trace[i].op \in CreateOps \cup PostCreateOps \cup {"sleep"}
          /\ trace[i].op # "sleep" => trace[i].method \in {"POST", "GET", "PATCH"}

C8_Witness ==
    /\ pc = "exited" /\ "hub" \in warned /\ "fpm" \in warned
    /\ Count({"installHub"}) = 1 /\ Count({"updateFpmSettings"}) = 1
    /\ Count({"installSsl"}) = 1 /\ lastResult.threw

(* C9: a client call returns only on a success status, and on every other   *)
(* status throws the failure of its class: authentication for 401,          *)
(* permission for 403, validation for 422 with the per-field detail the     *)
(* response supplies, and the generic API error carrying the status for     *)
(* the rest.                                                                *)
C9_StatusClassification ==
    (trace # << >> /\ lastTransport.kind = "response") =>
        LET status == lastTransport.status
            data == lastTransport.body
            error == lastResult.error
        IN  /\ ~lastResult.threw => ResponseOk(status)
            /\ ~ResponseOk(status) =>
                  /\ lastResult.threw
                  /\ error.label =
                        CASE status = 401 -> "Authentication Failed"
                          [] status = 403 -> "Permission Denied"
                          [] status = 422 -> "Validation Error"
                          [] OTHER -> "API Error"
                  /\ error.status = status
                  /\ (status = 422 /\ data.errors # Undefined)
                        => error.detail = data.errors[1]

(* C10: a rejected fetch whose cause is ENOTFOUND surfaces as the clarified *)
(* network error; every other failure raised in the request path, a         *)
(* rejection of fetch with another cause or none, a body that does not      *)
(* parse, a classified status failure, reaches the caller as it was raised. *)
C10_OnlyEnotfoundRewritten ==
    (trace # << >> /\ TryBlock(lastTransport).threw) =>
        /\ lastResult.threw
        /\ lastResult.error =
              IF lastTransport.kind = "reject"
                 /\ lastTransport.code = Some("ENOTFOUND")
              THEN NetworkError
              ELSE TryBlock(lastTransport).error

C10_Witness ==
    /\ trace # << >>
    /\ lastTransport = Rejected(Some("ENOTFOUND"))
    /\ lastResult.threw
    /\ lastResult.error.label = "Network Error: Could not connect to RunCloud API"
    /\ lastResult.error # FetchError(Some("ENOTFOUND"))

-----------------------------------------------------------------------------
(* The configuration resolver on its own: every combination of the toggle   *)
(* and cache-plugin flags on the command line and in the environment        *)

EnvText == {Undefined, Some("true"), Some("false")}

ResolverArgvSet ==
    [type : {APP_TYPES.WORDPRESS},
     domain : {"example.com"},
     owner : {Undefined},
     hub : TriBool, ssl : TriBool, unrestricted : TriBool,
     hubType : {Undefined, Some("native"), Some("redis")},
     redisObj : TriBool]

ResolverEnvSet ==
    [RC_API_KEY : {Some("key")},
     RC_SERVER_ID : {Some("srv")},
     RC_DEFAULT_USER : {Undefined},
     RC_INSTALL_HUB : EnvText, RC_INSTALL_SSL : EnvText,
     RC_UNRESTRICTED_PHP : EnvText,
     RC_HUB_TYPE : {Undefined, Some("redis")},
     RC_HUB_REDIS_OBJ : EnvText \cup {Some("")}]

\* the process has parsed its command line and loaded its environment
InitResolver ==
    /\ cliArgv \in {Some(a) : a \in ResolverArgvSet}
    /\ procEnv \in {Some(e) : e \in ResolverEnvSet}
    /\ cfg = Undefined
    /\ pc = "config"
    /\ exitCode = Undefined
    /\ RunIdle
    /\ RegistrarIdle
    /\ GeneratorIdle

\* this.config = this._resolveConfig()
ResolveConfig ==
    /\ pc = "config"
    /\ cfg' = Some(_resolveConfig(cliArgv[1], procEnv[1]))
    /\ pc' = "resolved"
    /\ UNCHANGED <<exitCode, runVars, inputVars, regVars, genVars>>

NextResolver == ResolveConfig

SpecResolver == InitResolver /\ [][NextResolver]_vars

\* the value the precedence rule gives a toggle
C11_Expected(cli, envv, dflt) ==
    IF cli = Some(TRUE) THEN TRUE
    ELSE IF cli = Some(FALSE) THEN FALSE
    ELSE IF envv # Undefined THEN envv = Some("true")
    ELSE dflt

(* C11: each of the three toggles resolves to the CLI boolean when the flag *)
(* is given, else to whether the environment variable, when set, is the     *)
(* string "true", else to its default: cache plugin true, certificate       *)
(* false, PHP-unrestriction false.                                          *)
C11_TogglePrecedence ==
    pc = "resolved" =>
        /\ Cfg.installHub =
              C11_Expected(cliArgv[1].hub, procEnv[1].RC_INSTALL_HUB, TRUE)
        /\ Cfg.installSsl =
              C11_Expected(cliArgv[1].ssl, procEnv[1].RC_INSTALL_SSL, FALSE)
        /\ Cfg.unrestrictedPhp =
              C11_Expected(cliArgv[1].unrestricted,
                           procEnv[1].RC_UNRESTRICTED_PHP, FALSE)

C11_Witness ==
    /\ pc = "resolved"
    /\ cliArgv[1].hub = Undefined
    /\ procEnv[1].RC_INSTALL_HUB = Some("false")
    /\ ~Cfg.installHub
    /\ cliArgv[1].ssl = Some(FALSE) /\ procEnv[1].RC_INSTALL_SSL = Some("true")
    /\ ~Cfg.installSsl

\* the value the precedence rule gives the object-cache flag
C12_Expected ==
    IF cliArgv[1].redisObj # Undefined THEN cliArgv[1].redisObj[1]
    ELSE IF procEnv[1].RC_HUB_REDIS_OBJ # Undefined
         THEN procEnv[1].RC_HUB_REDIS_OBJ = Some("true")
    ELSE FALSE

(* C12 as stated: whatever the resolved cache type, the object-cache flag   *)
(* is the CLI value when given, else the environment value, else false.     *)
C12_ObjectCachePrecedence ==
    pc = "resolved" => Cfg.hub.redisObject = C12_Expected

(* C12: when the resolved cache type is redis the object-cache flag is the  *)
(* CLI value when given, else whether the environment variable is "true",   *)
(* else false; when the resolved cache type is native it is false whatever  *)
(* the command line and the environment say.                                *)
C12_ObjectCacheOnlyWithRedis ==
    pc = "resolved" =>
        Cfg.hub.redisObject =
            IF Cfg.hub.type = "redis" THEN C12_Expected ELSE FALSE

C12_Witness ==
    /\ pc = "resolved"
    /\ Cfg.hub.type = "native"
    /\ cliArgv[1].redisObj = Some(TRUE)
    /\ ~Cfg.hub.redisObject

-----------------------------------------------------------------------------
(* C13: a custom-type run whose configuration passed validation issues one  *)
(* creation request and no other: a POST to /servers/{server}/webapps whose *)
(* payload carries the stack customnginx, an empty disabled-function list   *)
(* and URL-fopen enabled; the identifier of the answer becomes webAppId,    *)
(* and every later request is addressed to that identifier.                 *)
C13_CustomCreationCall ==
    (/\ cfg # Undefined /\ Cfg.appType = "custom"
     /\ pc \notin {"cli", "create"}
     /\ exitCode # Some(1) \/ trace # << >>)
    => /\ Count(CreateOps) = 1
       /\ trace[1].op = "createCustomWebApp"
       /\ trace[1].method = "POST"
       /\ trace[1].endpoint = [server |-> Cfg.serverId, app |-> Undefined,
                               domain |-> Undefined, leaf |-> "webapps"]
       /\ trace[1].body # Undefined
       /\ trace[1].body[1].stack = "customnginx"
       /\ trace[1].body[1].disableFunctions = ""
       /\ trace[1].body[1].allowUrlFopen = TRUE
       /\ pc = "delay" => webAppId = [set |-> TRUE, id |-> lastTransport.body.id]
       /\ \A i \in DOMAIN trace :
             trace[i].op \in PostCreateOps
                => trace[i].endpoint.app = Some(webAppId.id)

C13_Witness ==
    /\ pc = "exited" /\ exitCode = Some(0)
    /\ Cfg.appType = "custom"
    /\ webAppId = [set |-> TRUE, id |-> Some(555)]
    /\ Len(trace) = 4
    /\ trace[4].op = "installSsl"
    /\ trace[4].endpoint.app = Some(Some(555))

-----------------------------------------------------------------------------
(* utils/helpers: generateDbPass *)

\* the charset of generateStrongPass, symbols included
DbCharset_withSymbols ==
    <<"a", "b", "c", "d", "e", "f", "g", "h", "i", "j", "k", "l", "m", "n",
      "o", "p", "q", "r", "s", "t", "u", "v", "w", "x", "y", "z", "A", "B",
      "C", "D", "E", "F", "G", "H", "I", "J", "K", "L", "M", "N", "O", "P",
      "Q", "R", "S", "T", "U", "V", "W", "X", "Y", "Z", "0", "1", "2", "3",
      "4", "5", "6", "7", "8", "9", "!", "@", "#", "$", "%", "^", "&", "*">>

\* const charset of generateDbPass, one character per element
DbCharset ==
    <<"a", "b", "c", "d", "e", "f", "g", "h", "i", "j", "k", "l", "m", "n",
      "o", "p", "q", "r", "s", "t", "u", "v", "w", "x", "y", "z", "A", "B",
      "C", "D", "E", "F", "G", "H", "I", "J", "K", "L", "M", "N", "O", "P",
      "Q", "R", "S", "T", "U", "V", "W", "X", "Y", "Z", "0", "1", "2", "3",
      "4", "5", "6", "7", "8", "9">>

\* return retVal + "1A"
DbSuffix == <<"1", "A">>

\* generateDbPass(length) is called
InitGenerator ==
    /\ passLength \in 0..MaxPassLen
    /\ retVal = << >>
    /\ pc = "generate"
    /\ cfg = Undefined
    /\ exitCode = Undefined
    /\ RunIdle
    /\ InputsIdle
    /\ RegistrarIdle

\* one turn of the loop: charset.charAt(Math.floor(Math.random() * n))
AppendRandomChar ==
    /\ pc = "generate"
    /\ Len(retVal) < passLength
    /\ \E k \in 0..(Len(DbCharset) - 1) : retVal' = Append(retVal, DbCharset[k + 1])
    /\ UNCHANGED <<pc, passLength, cfg, exitCode, runVars, inputVars, regVars>>

\* the loop is over: return retVal + "1A"
ReturnDbPass ==
    /\ pc = "generate"
    /\ ~(Len(retVal) < passLength)
    /\ retVal' = retVal \o DbSuffix
    /\ pc' = "generated"
    /\ UNCHANGED <<passLength, cfg, exitCode, runVars, inputVars, regVars>>

NextGenerator == AppendRandomChar \/ ReturnDbPass

SpecGenerator == InitGenerator /\ [][NextGenerator]_vars

\* the letters and digits
Alphanumerics ==
    {"a", "b", "c", "d", "e", "f", "g", "h", "i", "j", "k", "l", "m", "n",
      "o", "p", "q", "r", "s", "t", "u", "v", "w", "x", "y", "z", "A", "B",
      "C", "D", "E", "F", "G", "H", "I", "J", "K", "L", "M", "N", "O", "P",
      "Q", "R", "S", "T", "U", "V", "W", "X", "Y", "Z", "0", "1", "2", "3",
      "4", "5", "6", "7", "8", "9"}

(* C18: what generateDbPass returns is made of letters and digits only, is  *)
(* at least as long as the length asked for, and ends with "1A".            *)
C18_DbPassAlphanumeric ==
    pc = "generated" =>
        /\ \A i \in DOMAIN retVal : retVal[i] \in Alphanumerics
        /\ Len(retVal) >= passLength
        /\ Len(retVal) >= 2
        /\ retVal[Len(retVal) - 1] = "1"
        /\ retVal[Len(retVal)] = "A"

C18_Witness ==
    /\ pc = "generated"
    /\ passLength >= 1
    /\ Len(retVal) = passLength + 2
    /\ retVal[1] = "Z"

-----------------------------------------------------------------------------
(* The reverse-proxy registrar: a program of its own *)

START_PORT == 3000

CONFIG_SUFFIX == ".location.root.server.conf"

\* a file name of CONFIG_DIR, split where endsWith looks
Named(stem, ext) == [stem |-> stem, ext |-> ext]

\* `${siteName}.location.root.server.conf`
FileName(siteName) == Named(siteName, CONFIG_SUFFIX)

\* a filter that lets every file of the directory through
IsConfFile_any(f) == TRUE

\* f.endsWith('.location.root.server.conf')
IsConfFile(f) == f.ext = CONFIG_SUFFIX

\* A file content is the sequence of its pieces: text without any
\* 127.0.0.1:<digits> in it, or one occurrence of 127.0.0.1:<port>.
Text == [t |-> "text", port |-> 0]

Addr(port) == [t |-> "addr", port |-> port]

\* nginxConfig.trim(): four proxy_set_header lines, then the proxy_pass line
NginxConfig(port) == <<Text, Addr(port)>>

\* content.match(/127\.0\.0\.1:(\d+)/) and parseInt(match[1], 10):
\* the port of the first occurrence, Undefined without one
FirstMatch(content) ==
    LET hits == {i \in DOMAIN content : content[i].t = "addr"}
    IN  IF hits = {} THEN Undefined
        ELSE Some(content[CHOOSE i \in hits : \A j \in hits : i <= j].port)

\* the last element instead of the greatest
MathMax_last(ports) == ports[Len(ports)]

\* Math.max(...usedPorts) on a non-empty array
MathMax(ports) ==
    CHOOSE p \in {ports[i] : i \in DOMAIN ports} :
        \A i \in DOMAIN ports : ports[i] <= p

\* a root check that lets everybody through
IsNotRoot_never(g) == FALSE

\* process.getuid && process.getuid() !== 0
IsNotRoot(g) == g # Undefined /\ g[1] # 0

\* the directory after fs.writeFile(filePath, content)
WriteFile(files, f, content) ==
    [g \in DOMAIN files \cup {f} |->
        IF g = f THEN [content |-> content, readable |-> TRUE] ELSE files[g]]

\* a rollback that leaves the file where it is
Unlink_keep(files, f) == files

\* the directory after fs.unlink(filePath)
Unlink(files, f) == [g \in DOMAIN files \ {f} |-> files[g]]

\* a reload whose failure goes unnoticed
AfterReload_ignore(ok) == "reg_end"

\* await execPromise('systemctl reload nginx-rc'): a rejection is thrown on
AfterReload(ok) == IF ok THEN "reg_end" ELSE "reg_trap"

FsOp(op, files) == [op |-> op, files |-> files]

Cmd(cmd, ok) == [cmd |-> cmd, ok |-> ok]

NGINX_TEST == "nginx-rc -t"

NGINX_RELOAD == "systemctl reload nginx-rc"

-----------------------------------------------------------------------------
(* What the registrar can find when it starts *)

RegFileNames ==
    {FileName("app"), FileName("blog"), FileName("shop"),
     Named("blog", ".conf.bak")}

RegContents ==
    {<<Text>>, <<Text, Addr(3000)>>, <<Text, Addr(3002)>>,
     <<Addr(3001), Addr(3005)>>}

\* a file that can be read, or an entry whose read fails
RegFileStates ==
    {[content |-> c, readable |-> TRUE] : c \in RegContents} \cup
    {[content |-> <<Text, Addr(3007)>>, readable |-> FALSE]}

RegFileSystems ==
    UNION {[S -> RegFileStates] : S \in SUBSET RegFileNames}

RegArgvSet ==
    [site : {"app"}, port : {Undefined, Some(Num(0)), Some(Num(8080))}]

InitRegistrar ==
    /\ getuid \in {Undefined, Some(0), Some(1000)}
    /\ cliArgv \in {Some(a) : a \in RegArgvSet}
    /\ dirExists \in BOOLEAN
    /\ fs \in IF dirExists THEN RegFileSystems ELSE {NoFiles}
    /\ fsBefore = fs
    /\ appPort = Undefined
    /\ reads = NoFiles
    /\ usedPorts = << >>
    /\ fsOps = << >>
    /\ cmds = << >>
    /\ runs = 1
    /\ pc = "reg_start"
    /\ procEnv = Undefined
    /\ cfg = Undefined
    /\ exitCode = Undefined
    /\ RunIdle
    /\ GeneratorIdle

Site == cliArgv[1].site

\* the variables the registrar never touches
notRegistrar ==
    <<cfg, runVars, inputVars, genVars, getuid, dirExists, fsBefore, runs>>

\* Check for Root Privileges
CheckRoot ==
    /\ pc = "reg_start"
    /\ pc' = IF IsNotRoot(getuid) THEN "reg_trap" ELSE "reg_port"
    /\ UNCHANGED <<exitCode, fs, appPort, reads, usedPorts, fsOps, cmds>>
    /\ UNCHANGED notRegistrar

\* Determine Port: a truthy --port is taken as it is
DeterminePort ==
    /\ pc = "reg_port"
    /\ IF TruthyNum(cliArgv[1].port)
       THEN appPort' = Some(cliArgv[1].port[1].n) /\ pc' = "reg_write"
       ELSE appPort' = appPort /\ pc' = "scan_access"
    /\ UNCHANGED <<exitCode, fs, reads, usedPorts, fsOps, cmds>>
    /\ UNCHANGED notRegistrar

\* findNextPort: await fs.access(CONFIG_DIR)
findNextPort_access ==
    /\ pc = "scan_access"
    /\ fsOps' = Append(fsOps, FsOp("access", {}))
    /\ IF dirExists
       THEN appPort' = appPort /\ pc' = "scan_readdir"
       ELSE appPort' = Some(START_PORT) /\ pc' = "reg_write"
    /\ UNCHANGED <<exitCode, fs, reads, usedPorts, cmds>>
    /\ UNCHANGED notRegistrar

\* findNextPort: readdir, the filter, and the start of every readFile; a
\* rejected readdir leaves through the outer catch
findNextPort_readdir ==
    /\ pc = "scan_readdir"
    /\ \E ok \in BOOLEAN :
          LET confFiles == {f \in DOMAIN fs : IsConfFile(f)}
          IN  IF ~ok
              THEN /\ fsOps' = Append(fsOps, FsOp("readdir", {}))
                   /\ pc' = "reg_trap"
                   /\ UNCHANGED <<appPort, reads>>
              ELSE IF confFiles = {}
              THEN /\ fsOps' = Append(fsOps, FsOp("readdir", {}))
                   /\ appPort' = Some(START_PORT)
                   /\ pc' = "reg_write"
                   /\ UNCHANGED reads
              ELSE /\ fsOps' = fsOps \o <<FsOp("readdir", {}),
                                          FsOp("readFile", confFiles)>>
                   /\ reads' = [f \in confFiles |-> "pending"]
                   /\ pc' = "scan_reading"
                   /\ UNCHANGED appPort
    /\ UNCHANGED <<exitCode, fs, usedPorts, cmds>>
    /\ UNCHANGED notRegistrar

\* findNextPort: one readFile settles, in whatever order; its callback
\* pushes the port of the first match, or warns and skips the file
findNextPort_readDone ==
    /\ pc = "scan_reading"
    /\ \E f \in DOMAIN reads :
          /\ reads[f] = "pending"
          /\ IF fs[f].readable
             THEN /\ reads' = [reads EXCEPT ![f] = "done"]
                  /\ usedPorts' =
                        IF FirstMatch(fs[f].content) # Undefined
                        THEN Append(usedPorts, FirstMatch(fs[f].content)[1])
                        ELSE usedPorts
             ELSE /\ reads' = [reads EXCEPT ![f] = "failed"]
                  /\ usedPorts' = usedPorts
    /\ UNCHANGED <<pc, exitCode, fs, appPort, fsOps, cmds>>
    /\ UNCHANGED notRegistrar

\* findNextPort returning the greatest port already in use, not the next one
findNextPort_return_noIncrement ==
    /\ pc = "scan_reading"
    /\ \A f \in DOMAIN reads : reads[f] # "pending"
    /\ appPort' = IF usedPorts = << >> THEN Some(START_PORT)
                  ELSE Some(MathMax(usedPorts))
    /\ pc' = "reg_write"
    /\ UNCHANGED <<exitCode, fs, reads, usedPorts, fsOps, cmds>>
    /\ UNCHANGED notRegistrar

\* findNextPort: Promise.all has resolved; START_PORT or max + 1
findNextPort_return ==
    /\ pc = "scan_reading"
    /\ \A f \in DOMAIN reads : reads[f] # "pending"
    /\ appPort' = IF usedPorts = << >> THEN Some(START_PORT)
                  ELSE Some(MathMax(usedPorts) + 1)
    /\ pc' = "reg_write"
    /\ UNCHANGED <<exitCode, fs, reads, usedPorts, fsOps, cmds>>
    /\ UNCHANGED notRegistrar

\* Write Configuration File: fails when the directory is missing
WriteConfig ==
    /\ pc = "reg_write"
    /\ fsOps' = Append(fsOps, FsOp("writeFile", {FileName(Site)}))
    /\ IF dirExists
       THEN /\ fs' = WriteFile(fs, FileName(Site), NginxConfig(appPort[1]))
            /\ pc' = "reg_test"
       ELSE /\ fs' = fs
            /\ pc' = "reg_trap"
    /\ UNCHANGED <<exitCode, appPort, reads, usedPorts, cmds>>
    /\ UNCHANGED notRegistrar

\* Test Nginx Configuration; on a failure unlink the file and throw
TestNginx ==
    /\ pc = "reg_test"
    /\ \E ok \in BOOLEAN :
          /\ cmds' = Append(cmds, Cmd(NGINX_TEST, ok))
          /\ IF ok
             THEN /\ pc' = "reg_reload"
                  /\ UNCHANGED <<fs, fsOps>>
             ELSE /\ fs' = Unlink(fs, FileName(Site))
                  /\ fsOps' = Append(fsOps, FsOp("unlink", {FileName(Site)}))
                  /\ pc' = "reg_trap"
    /\ UNCHANGED <<exitCode, appPort, reads, usedPorts>>
    /\ UNCHANGED notRegistrar

\* Reload Nginx
ReloadNginx ==
    /\ pc = "reg_reload"
    /\ \E ok \in BOOLEAN :
          /\ cmds' = Append(cmds, Cmd(NGINX_RELOAD, ok))
          /\ pc' = AfterReload(ok)
    /\ UNCHANGED <<exitCode, fs, appPort, reads, usedPorts, fsOps>>
    /\ UNCHANGED notRegistrar

\* Output Success; the process ends
RegistrarEnd ==
    /\ pc = "reg_end"
    /\ exitCode' = Some(0)
    /\ pc' = "exited"
    /\ UNCHANGED <<fs, appPort, reads, usedPorts, fsOps, cmds>>
    /\ UNCHANGED notRegistrar

\* catch (error) { console.error(...); process.exit(1) }
RegistrarErrorTrap ==
    /\ pc = "reg_trap"
    /\ exitCode' = Some(1)
    /\ pc' = "exited"
    /\ UNCHANGED <<fs, appPort, reads, usedPorts, fsOps, cmds>>
    /\ UNCHANGED notRegistrar

NextRegistrar ==
    \/ CheckRoot
    \/ DeterminePort
    \/ findNextPort_access
    \/ findNextPort_readdir
    \/ findNextPort_readDone
    \/ findNextPort_return
    \/ WriteConfig
    \/ TestNginx
    \/ ReloadNginx
    \/ RegistrarEnd
    \/ RegistrarErrorTrap

SpecRegistrar == InitRegistrar /\ [][NextRegistrar]_vars

-----------------------------------------------------------------------------
(* Properties of the registrar, checked under SpecRegistrar *)

\* the run selects its port itself: no truthy --port was given
AutoSelected == ~TruthyNum(cliArgv[1].port)

\* the greatest element of a non-empty set of ports
Greatest(S) == CHOOSE p \in S : \A q \in S : q <= p

\* the ports a directory yields: the first pattern of each readable file
\* that carries the suffix
YieldedPorts(files) ==
    {FirstMatch(files[f].content)[1] :
        f \in {g \in DOMAIN files :
                 /\ g.ext = CONFIG_SUFFIX
                 /\ files[g].readable
                 /\ FirstMatch(files[g].content) # Undefined}}

TestFailed == \E i \in DOMAIN cmds : cmds[i] = Cmd(NGINX_TEST, FALSE)

ReloadFailed == \E i \in DOMAIN cmds : cmds[i] = Cmd(NGINX_RELOAD, FALSE)

Invoked(cmd) == \E i \in DOMAIN cmds : cmds[i].cmd = cmd

Issued(op) == \E i \in DOMAIN fsOps : fsOps[i].op = op

C15_RollbackOnFailedTest ==
    TestFailed =>
        /\ FileName(Site) \notin DOMAIN fs
        /\ ~Invoked(NGINX_RELOAD)
        /\ pc \in {"reg_trap", "exited"}
        /\ pc = "exited" => exitCode = Some(1)

C15_Witness ==
    /\ TestFailed
    /\ Issued("writeFile")
    /\ Issued("unlink")
    /\ pc = "exited"
    /\ exitCode = Some(1)

\* C16: the reload command is invoked only after a successful syntax check;
\* when it fails the process ends with status 1 and the fragment written by
\* the run is still there, never unlinked.
C16_ReloadAfterTest ==
    /\ \A i \in DOMAIN cmds :
          cmds[i].cmd = NGINX_RELOAD =>
              /\ i = 2
              /\ cmds[1] = Cmd(NGINX_TEST, TRUE)
    /\ ReloadFailed =>
          /\ pc \in {"reg_trap", "exited"}
          /\ pc = "exited" => exitCode = Some(1)
          /\ FileName(Site) \in DOMAIN fs
          /\ fs[FileName(Site)].content = <<Text, Addr(appPort[1])>>
          /\ ~Issued("unlink")

C16_Witness ==
    /\ ReloadFailed
    /\ pc = "exited"
    /\ exitCode = Some(1)
    /\ FileName(Site) \in DOMAIN fs
    /\ FileName(Site) \notin DOMAIN fsBefore

\* C17: a run whose user id is not 0 never scans, never writes or deletes a
\* file, never invokes a command, and ends with status 1.
C17_RefusesWithoutRoot ==
    (getuid # Undefined /\ getuid[1] # 0) =>
        /\ fsOps = << >>
        /\ cmds = << >>
        /\ fs = fsBefore
        /\ appPort = Undefined
        /\ pc \in {"reg_start", "reg_trap", "exited"}
        /\ pc = "exited" => exitCode = Some(1)

C17_Witness ==
    /\ getuid = Some(1000)
    /\ dirExists
    /\ pc = "exited"
    /\ exitCode = Some(1)

\* C19: after a failed syntax check the site's fragment is as it was before
\* the run: absent if it was absent, with its previous content if it existed.
C19_RollbackRestores ==
    (TestFailed /\ pc = "exited") =>
        IF FileName(Site) \in DOMAIN fsBefore
        THEN /\ FileName(Site) \in DOMAIN fs
             /\ fs[FileName(Site)].content = fsBefore[FileName(Site)].content
        ELSE FileName(Site) \notin DOMAIN fs

\* the files whose read has settled with a content
ReadOk == {f \in DOMAIN reads : reads[f] = "done"}

\* the ports found in the files whose read has settled with a content
ReadPorts ==
    {FirstMatch(fsBefore[f].content)[1] :
        f \in {g \in ReadOk : FirstMatch(fsBefore[g].content) # Undefined}}

\* C20: every fragment with the suffix is read in one batch; the port is
\* computed only when no read is pending, and it is START_PORT or the
\* greatest port of the reads that succeeded plus one, whatever the order
\* in which the reads settled; a failed read contributes nothing.
C20_ConcurrentReads ==
    /\ pc = "scan_reading" =>
          /\ DOMAIN reads = {f \in DOMAIN fsBefore : f.ext = CONFIG_SUFFIX}
          /\ fsOps[Len(fsOps)] = FsOp("readFile", DOMAIN reads)
          /\ appPort = Undefined
    /\ (AutoSelected /\ appPort # Undefined /\ Issued("readFile")) =>
          /\ \A f \in DOMAIN reads :
                /\ reads[f] # "pending"
                /\ reads[f] = "failed" <=> ~fsBefore[f].readable
          /\ appPort = IF ReadPorts = {} THEN Some(3000)
                       ELSE Some(Greatest(ReadPorts) + 1)

\* three reads were in flight; the greatest port arrived first, a read
\* failed, and the port is still the greatest plus one
C20_Witness ==
    /\ Len(usedPorts) = 2
    /\ usedPorts[1] > usedPorts[2]
    /\ \E f \in DOMAIN reads : reads[f] = "failed"
    /\ appPort = Some(usedPorts[1] + 1)

-----------------------------------------------------------------------------
(* The registrar started again and again, one run after the other *)

MaxRuns == 3

\* what the directory can hold before the first run
SeqFileStates ==
    {[content |-> <<Text, Addr(3000)>>, readable |-> TRUE],
     [content |-> <<Addr(3001), Addr(3005)>>, readable |-> TRUE],
     [content |-> <<Text, Addr(3007)>>, readable |-> FALSE]}

SeqFileSystems ==
    UNION {[S -> SeqFileStates] : S \in SUBSET {FileName("blog"), FileName("shop")}}

SeqArgvSet ==
    [site : {"app", "blog"}, port : {Undefined, Some(Num(3005))}]

InitSequence ==
    /\ getuid \in {Some(0), Some(1000)}
    /\ cliArgv \in {Some(a) : a \in SeqArgvSet}
    /\ dirExists \in BOOLEAN
    /\ fs \in IF dirExists THEN SeqFileSystems ELSE {NoFiles}
    /\ fsBefore = fs
    /\ appPort = Undefined
    /\ reads = NoFiles
    /\ usedPorts = << >>
    /\ fsOps = << >>
    /\ cmds = << >>
    /\ runs = 1
    /\ pc = "reg_start"
    /\ procEnv = Undefined
    /\ cfg = Undefined
    /\ exitCode = Undefined
    /\ RunIdle
    /\ GeneratorIdle

\* the program is started again once the previous process has ended; the
\* directory is as that process left it
StartRun ==
    /\ pc = "exited"
    /\ runs < MaxRuns
    /\ runs' = runs + 1
    /\ cliArgv' \in {Some(a) : a \in SeqArgvSet}
    /\ fsBefore' = fs
    /\ appPort' = Undefined
    /\ reads' = NoFiles
    /\ usedPorts' = << >>
    /\ fsOps' = << >>
    /\ cmds' = << >>
    /\ exitCode' = Undefined
    /\ pc' = "reg_start"
    /\ UNCHANGED <<cfg, runVars, procEnv, genVars, getuid, dirExists, fs>>

NextSequence ==
    \/ NextRegistrar
    \/ StartRun

SpecSequence == InitSequence /\ [][NextSequence]_vars

\* the fragments of a directory: its files with the suffix
Fragments(files) == {f \in DOMAIN files : f.ext = CONFIG_SUFFIX}

\* the fragments of a directory in which a port can be found
WithPort(files) ==
    {f \in Fragments(files) : FirstMatch(files[f].content) # Undefined}

\* the run selected its port itself and went through to the end
AutoSucceeded == AutoSelected /\ pc = "exited" /\ exitCode = Some(0)

\* C21, as stated: in a sequence of runs an auto-selected port is greater
\* than the port of every fragment that existed when the run scanned, and
\* after a successful auto-selecting run no other site's fragment carries
\* the port just written.
C21_AboveEveryFragment ==
    /\ (AutoSelected /\ appPort # Undefined) =>
          \A f \in WithPort(fsBefore) :
             appPort[1] > FirstMatch(fsBefore[f].content)[1]
    /\ AutoSucceeded =>
          \A f \in WithPort(fs) \ {FileName(Site)} :
             FirstMatch(fs[f].content) # appPort

\* C21, amended: in a sequence of runs an auto-selected port is greater than
\* the port of every fragment the scan could read, and after a successful
\* auto-selecting run no other site's readable fragment carries the port
\* just written.
C21_AboveEveryReadFragment ==
    /\ (AutoSelected /\ appPort # Undefined) =>
          \A f \in WithPort(fsBefore) :
             fsBefore[f].readable =>
                appPort[1] > FirstMatch(fsBefore[f].content)[1]
    /\ AutoSucceeded =>
          /\ fs[FileName(Site)].content = <<Text, Addr(appPort[1])>>
          /\ \A f \in WithPort(fs) \ {FileName(Site)} :
                fs[f].readable => FirstMatch(fs[f].content) # appPort

\* a first run wrote app's fragment with the given port 3005; the second
\* run selected 3006 for blog and went through
C21_Witness ==
    /\ runs = 2
    /\ AutoSucceeded
    /\ Site = "blog"
    /\ FileName("app") \in DOMAIN fsBefore
    /\ fsBefore[FileName("app")].content = <<Text, Addr(3005)>>
    /\ appPort = Some(3006)
    /\ fs[FileName("blog")].content = <<Text, Addr(3006)>>
    /\ fs[FileName("app")] = fsBefore[FileName("app")]

=============================================================================
